---- MODULE Spec2Model ----
(***************************************************************************)
(* State-machine model of the CAN dashboard frontend's ingestion pipeline: *)
(* the ZeroMQ worker (communication/zmq_worker.py) that drains the SUB     *)
(* socket, filters signals and emits new_signal_value, and the main window *)
(* (gui/main_window.py) that receives those emissions, applies them to the *)
(* display sinks or buffers them until the periodic flush.                 *)
(***************************************************************************)
EXTENDS Integers, Sequences, FiniteSets, TLC

(***************************************************************************)
(* Bounds of the model.                                                    *)
(***************************************************************************)
\* Envelopes that can wait in the SUB socket's receive queue.
MaxQueue == 2
\* new_signal_value deliveries that may still be queued for the GUI thread
\* when a poll tick starts.
MaxBacklog == 1
\* Largest reading of the monotonic clock.
MaxTime == 4
\* Longest recorded history of a scenario.
MaxTrace == 4

(***************************************************************************)
(* Program constants (config/settings.py).                                 *)
(***************************************************************************)
MAX_MESSAGES_PER_CYCLE == 200
MAX_DRAIN_PER_POLL == 1000

\* The configuration the repository ships.
Settings ==
    [ BACKLOG_STRATEGY              |-> "collapse_latest",
      MERGE_SIGNALS_DURING_COLLAPSE |-> TRUE,
      MAX_DRAIN                     |-> MAX_DRAIN_PER_POLL,
      MAX_PER_CYCLE                 |-> MAX_MESSAGES_PER_CYCLE,
      DISPLAY_SIGNAL_WHITELIST      |-> {},
      DISPLAY_SIGNAL_BLACKLIST      |-> {},
      SIGNAL_RATE_LIMITS            |-> <<>>,
      MAX_SIGNALS_PER_MESSAGE       |-> 0,
      FAST_FORWARD_SIGNAL_UPDATES   |-> TRUE,
      REALTIME_GAUGE_UPDATES        |-> FALSE,
      \* thresholds as fractions <<numerator, denominator>>: 0.50 and 0.0001
      GAUGE_IMMEDIATE_THRESHOLD     |-> <<1, 2>>,
      GAUGE_SKIP_THRESHOLD          |-> <<1, 10000>> ]

(***************************************************************************)
(* Values, names and dicts.                                                *)
(***************************************************************************)
\* A JSON value of a data map: a number, or something float() rejects.
Num(v) == [t |-> "num", v |-> v]
NotNum == [t |-> "str", v |-> 0]

\* str.lower() on the signal names of the model.
Lower(n) ==
    CASE n = "RPM" -> "rpm"
      [] n = "Oil" -> "oil"
      [] n = "Gear" -> "gear"
      [] OTHER -> n

Min(a, b) == IF a < b THEN a ELSE b
Max(a, b) == IF a > b THEN a ELSE b

\* A Python dict is a sequence of <<key, value>> pairs with distinct keys, in
\* insertion order.
Keys(d) == {d[i][1] : i \in 1..Len(d)}
HasKey(d, k) == \E i \in 1..Len(d) : d[i][1] = k
DictGet(d, k) == d[CHOOSE i \in 1..Len(d) : d[i][1] = k][2]
\* d[k] = v written as "insert if absent": an existing entry keeps its value.
DictSetKeepFirst(d, k, v) ==
    IF HasKey(d, k) THEN d ELSE Append(d, <<k, v>>)
\* d[k] = v
DictAppend(d, k, v) == Append(d, <<k, v>>)
DictSet(d, k, v) ==
    IF HasKey(d, k)
    THEN [i \in 1..Len(d) |-> IF d[i][1] = k THEN <<k, v>> ELSE d[i]]
    ELSE Append(d, <<k, v>>)
\* for k, v in items: d[k] = v
RECURSIVE DictUpdate(_, _)
DictUpdate(d, items) ==
    IF items = <<>> THEN d
    ELSE DictUpdate(DictSet(d, Head(items)[1], Head(items)[2]), Tail(items))

RECURSIVE SeqFilterDecoded(_)
SeqFilterDecoded(ms) ==
    IF ms = <<>> THEN <<>>
    ELSE IF Head(ms).type = "decoded"
         THEN <<Head(ms)>> \o SeqFilterDecoded(Tail(ms))
         ELSE SeqFilterDecoded(Tail(ms))

(***************************************************************************)
(* State.                                                                  *)
(***************************************************************************)
VARIABLES
    cfg,                    \* the module-level settings of this run
    now,                    \* time.monotonic()
    zmqQueue,               \* envelopes waiting in the SUB socket
    pub_socket,             \* ZMQWorker.pub_socket is set
    req_socket,             \* ZMQWorker.req_socket is set
    listening,              \* ZMQWorker._listening
    timer,                  \* ZMQWorker.message_timer: none, scheduled, running
    last_signal_emit,       \* ZMQWorker._last_signal_emit
    signalQ,                \* new_signal_value emissions queued for the GUI thread
    pending_gauge_updates,  \* CANDashboardMainWindow.pending_gauge_updates
    gaugeValue,             \* value shown by each gauge widget
    indicatorOn,            \* IndicatorLight.is_on of each indicator
    displayText,            \* SevenSegmentDisplay.display_text of each display
    gauge,                  \* a gauge widget on its own: kind, range, value
    gui,                    \* the GUI thread: idle in its event loop, or in recv
    last,                   \* observer: what the most recent handler did
    trace                   \* observer: history of a recorded scenario

vars == <<cfg, now, zmqQueue, pub_socket, req_socket, listening, timer,
          last_signal_emit, signalQ, pending_gauge_updates, gaugeValue,
          indicatorOn, displayText, gauge, gui, last, trace>>

workerVars == <<zmqQueue, pub_socket, req_socket, listening, timer,
                last_signal_emit>>
windowVars == <<pending_gauge_updates, gaugeValue, indicatorOn, displayText>>

\* The observer's record of one handler execution.
NoOp ==
    [ op         |-> "none",
      drained    |-> <<>>,   \* envelopes received from the socket
      dispatched |-> <<>>,   \* messages passed to _process_message
      raws       |-> <<>>,   \* messages emitted through raw_message_received
      log        |-> <<>>,   \* per data item: what the filter decided
      emitted    |-> <<>>,   \* new_signal_value emissions <<name, value>>
      name       |-> "",     \* update_display_data's signal_name
      value      |-> 0,      \* update_display_data's value
      before     |-> <<>>,   \* the pending buffer when the handler started
      calls      |-> <<>>,   \* sink calls made: <<kind, sink, value, signal>>
      error      |-> FALSE ] \* backend_error_message was emitted

(***************************************************************************)
(* ZMQWorker._process_message                                              *)
(***************************************************************************)
\* The cap keeping the last entries instead of the first.
CapItemsLast(c, items) ==
    IF c.MAX_SIGNALS_PER_MESSAGE > 0 /\ Len(items) > c.MAX_SIGNALS_PER_MESSAGE
    THEN SubSeq(items, Len(items) - c.MAX_SIGNALS_PER_MESSAGE + 1, Len(items))
    ELSE items
\* data_items after the per-message cap (zmq_worker.py 166-170).
CapItems(c, items) ==
    IF c.MAX_SIGNALS_PER_MESSAGE > 0 /\ Len(items) > c.MAX_SIGNALS_PER_MESSAGE
    THEN SubSeq(items, 1, c.MAX_SIGNALS_PER_MESSAGE)
    ELSE items

\* The items up to the first one float() rejects.
RECURSIVE DataIterableUntilBad(_, _)
DataIterableUntilBad(c, items) ==
    IF items = <<>> \/ Head(items)[2].t # "num" THEN <<>>
    ELSE <<Head(items)>> \o DataIterableUntilBad(c, Tail(items))
\* data_iterable (zmq_worker.py 172-179).
DataIterable(c, items) ==
    IF c.FAST_FORWARD_SIGNAL_UPDATES THEN DictUpdate(<<>>, items) ELSE items

\* The blacklist test applied only when no whitelist admits the name.
PassesBlacklistUnlessWhitelisted(c, sig_l) ==
    sig_l \in c.DISPLAY_SIGNAL_WHITELIST \/ sig_l \notin c.DISPLAY_SIGNAL_BLACKLIST
\* Whitelist and blacklist tests of one item (zmq_worker.py 184-189).
PassesWhitelist(c, sig_l) ==
    ~(c.DISPLAY_SIGNAL_WHITELIST # {} /\ sig_l \notin c.DISPLAY_SIGNAL_WHITELIST)
PassesBlacklist(c, sig_l) == sig_l \notin c.DISPLAY_SIGNAL_BLACKLIST

\* The test with the interval one too short.
RateLimitedShort(t, last_t, min_interval) == t - last_t < min_interval - 1
\* The rate limiter's test (zmq_worker.py 197): the sample is dropped.
RateLimited(t, last_t, min_interval) == t - last_t < min_interval

\* self._last_signal_emit.get(sig_l, 0)
LastEmitGet(lastEmit, sig_l) ==
    IF HasKey(lastEmit, sig_l) THEN DictGet(lastEmit, sig_l) ELSE 0

\* One pass of the for loop over data_iterable (zmq_worker.py 181-206).
\* k items were iterated earlier in this poll tick.  t0 is the clock when the
\* tick starts; the clock advances once, after split items of the tick.
\* Returns the emissions, the new _last_signal_emit and the log of decisions.
RECURSIVE FilterItems(_, _, _, _, _, _, _)
FilterItems(c, items, i, lastEmit, t0, split, k) ==
    IF i > Len(items)
    THEN [emitted |-> <<>>, lastEmit |-> lastEmit, log |-> <<>>]
    ELSE
      LET signal_name == items[i][1]
          value == items[i][2]
          sig_l == Lower(signal_name)
          t == IF k + i > split THEN t0 + 1 ELSE t0
          limited == HasKey(c.SIGNAL_RATE_LIMITS, sig_l)
          last_t == LastEmitGet(lastEmit, sig_l)
          entry(verdict) ==
              [name |-> signal_name, value |-> value, verdict |-> verdict,
               t |-> t, last_t |-> last_t, hadLast |-> HasKey(lastEmit, sig_l)]
          verdict ==
              IF ~PassesWhitelist(c, sig_l) THEN "whitelist"
              ELSE IF ~PassesBlacklist(c, sig_l) THEN "blacklist"
              ELSE IF limited
                      /\ RateLimited(t, last_t, DictGet(c.SIGNAL_RATE_LIMITS, sig_l))
                   THEN "rate"
              ELSE IF value.t # "num" THEN "badvalue"
              ELSE "emitted"
          lastEmit2 ==
              IF limited /\ verdict \in {"badvalue", "emitted"}
              THEN DictSet(lastEmit, sig_l, t)
              ELSE lastEmit
          rest == FilterItems(c, items, i + 1, lastEmit2, t0, split, k)
      IN  [emitted |-> (IF verdict = "emitted"
                        THEN <<(<<signal_name, value.v>>)>> ELSE <<>>)
                       \o rest.emitted,
           lastEmit |-> rest.lastEmit,
           log |-> <<entry(verdict)>> \o rest.log]

\* _process_message(message) (zmq_worker.py 161-208).
ProcessMessage(c, message, lastEmit, t0, split, k) ==
    IF message.type = "decoded"
    THEN LET r == FilterItems(c, DataIterable(c, CapItems(c, message.data)),
                              1, lastEmit, t0, split, k)
         IN  [emitted |-> r.emitted, lastEmit |-> r.lastEmit, log |-> r.log,
              raws |-> <<>>]
    ELSE IF message.type = "raw"
    THEN [emitted |-> <<>>, lastEmit |-> lastEmit, log |-> <<>>,
          raws |-> <<message>>]
    ELSE [emitted |-> <<>>, lastEmit |-> lastEmit, log |-> <<>>, raws |-> <<>>]

\* The messages of a sequence processed newest first.
RECURSIVE ProcessAllReversed(_, _, _, _, _, _)
ProcessAllReversed(c, msgs, lastEmit, t0, split, k) ==
    IF msgs = <<>>
    THEN [emitted |-> <<>>, lastEmit |-> lastEmit, log |-> <<>>, raws |-> <<>>]
    ELSE LET r == ProcessMessage(c, msgs[Len(msgs)], lastEmit, t0, split, k)
             rest == ProcessAllReversed(c, SubSeq(msgs, 1, Len(msgs) - 1),
                                        r.lastEmit, t0, split, k + Len(r.log))
         IN  [emitted |-> r.emitted \o rest.emitted,
              lastEmit |-> rest.lastEmit,
              log |-> r.log \o rest.log,
              raws |-> r.raws \o rest.raws]
\* _process_message on each message of a sequence, in order.
RECURSIVE ProcessAll(_, _, _, _, _, _)
ProcessAll(c, msgs, lastEmit, t0, split, k) ==
    IF msgs = <<>>
    THEN [emitted |-> <<>>, lastEmit |-> lastEmit, log |-> <<>>, raws |-> <<>>]
    ELSE LET r == ProcessMessage(c, Head(msgs), lastEmit, t0, split, k)
             rest == ProcessAll(c, Tail(msgs), r.lastEmit, t0, split,
                                k + Len(r.log))
         IN  [emitted |-> r.emitted \o rest.emitted,
              lastEmit |-> rest.lastEmit,
              log |-> r.log \o rest.log,
              raws |-> r.raws \o rest.raws]

(***************************************************************************)
(* ZMQWorker._poll_messages                                                *)
(***************************************************************************)
\* What makes a receive raise: a payload recv_json cannot decode
\* ("malformed", a ValueError) or a fault of the socket ("zmqerror", a
\* zmq.ZMQError).  Both handlers of _poll_messages do the same
\* (zmq_worker.py 148-159).
Raising == {"malformed", "zmqerror"}

\* The first undecodable payload only: a socket fault goes unnoticed.
FirstUndecodable(q, n) ==
    IF \E i \in 1..n : q[i].type = "malformed"
    THEN CHOOSE i \in 1..n : q[i].type = "malformed"
                             /\ \A j \in 1..(i - 1) : q[j].type # "malformed"
    ELSE 0
\* Position of the first receive that raises among the first n envelopes of
\* the queue, or 0.
FirstMalformed(q, n) ==
    IF \E i \in 1..n : q[i].type \in Raising
    THEN CHOOSE i \in 1..n : q[i].type \in Raising
                             /\ \A j \in 1..(i - 1) : q[j].type \notin Raising
    ELSE 0

\* combined / signal_map of the merge branch (zmq_worker.py 115-127): the
\* header of the first decoded message, and the last value of every signal.
RECURSIVE SignalMap(_, _)
SignalMap(signal_map, decs) ==
    IF decs = <<>> THEN signal_map
    ELSE SignalMap(DictUpdate(signal_map, Head(decs).data), Tail(decs))

Combined(latest_messages) ==
    LET decs == SeqFilterDecoded(latest_messages)
    IN  IF decs = <<>> THEN <<>>
        ELSE <<[type |-> "decoded", id_hex |-> decs[1].id_hex,
                data |-> DictUpdate(<<>>, SignalMap(<<>>, decs))]>>

\* The loop of zmq_worker.py 131 without reversed(): the first decoded message.
FirstDecoded(latest_messages) ==
    LET decs == SeqFilterDecoded(latest_messages)
    IN  IF decs = <<>> THEN <<>> ELSE <<decs[1]>>
\* The last decoded message of the drained list (zmq_worker.py 131-134).
LastDecoded(latest_messages) ==
    LET decs == SeqFilterDecoded(latest_messages)
    IN  IF decs = <<>> THEN <<>> ELSE <<decs[Len(decs)]>>

\* The tick with no cap on the number of receives.
PollPlanUncapped(c, q) ==
    LET n == Len(q)
        bad == FirstMalformed(q, n)
        taken == IF bad = 0 THEN n ELSE bad
        good == SubSeq(q, 1, IF bad = 0 THEN n ELSE bad - 1)
    IN  [ taken |-> taken,
          failed |-> bad # 0,
          dispatched |->
              IF c.BACKLOG_STRATEGY = "collapse_latest"
              THEN IF bad # 0 THEN <<>>
                   ELSE IF c.MERGE_SIGNALS_DURING_COLLAPSE
                        THEN Combined(good)
                        ELSE LastDecoded(good)
              ELSE good ]
\* The tick that empties the socket and processes only what the cap allows.
PollPlanDropsRest(c, q) ==
    LET cap == IF c.BACKLOG_STRATEGY = "collapse_latest"
               THEN c.MAX_DRAIN ELSE c.MAX_PER_CYCLE
        n == Min(cap, Len(q))
        bad == FirstMalformed(q, n)
        good == SubSeq(q, 1, IF bad = 0 THEN n ELSE bad - 1)
    IN  [ taken |-> Len(q),
          failed |-> bad # 0,
          dispatched |->
              IF c.BACKLOG_STRATEGY = "collapse_latest"
              THEN IF bad # 0 THEN <<>>
                   ELSE IF c.MERGE_SIGNALS_DURING_COLLAPSE
                        THEN Combined(good)
                        ELSE LastDecoded(good)
              ELSE good ]
\* What one poll tick takes from the socket and hands to _process_message:
\* taken envelopes leave the queue, dispatched messages are processed, failed
\* tells that recv_json raised.
PollPlan(c, q) ==
    LET cap == IF c.BACKLOG_STRATEGY = "collapse_latest"
               THEN c.MAX_DRAIN ELSE c.MAX_PER_CYCLE
        n == Min(cap, Len(q))
        bad == FirstMalformed(q, n)
        taken == IF bad = 0 THEN n ELSE bad
        good == SubSeq(q, 1, IF bad = 0 THEN n ELSE bad - 1)
    IN  [ taken |-> taken,
          failed |-> bad # 0,
          dispatched |->
              IF c.BACKLOG_STRATEGY = "collapse_latest"
              THEN IF bad # 0 THEN <<>>
                   ELSE IF c.MERGE_SIGNALS_DURING_COLLAPSE
                        THEN Combined(good)
                        ELSE LastDecoded(good)
              ELSE good ]

\* Number of data items the for loops of _process_message iterate over.
RECURSIVE ItemCount(_, _)
ItemCount(c, msgs) ==
    IF msgs = <<>> THEN 0
    ELSE (IF Head(msgs).type = "decoded"
          THEN Len(DataIterable(c, CapItems(c, Head(msgs).data))) ELSE 0)
         + ItemCount(c, Tail(msgs))

\* The tick reads time.monotonic(): some item reaches the rate limiter.
ReadsClock(c, log) ==
    \E i \in 1..Len(log) :
        /\ HasKey(c.SIGNAL_RATE_LIMITS, Lower(log[i].name))
        /\ log[i].verdict \notin {"whitelist", "blacklist"}

\* _poll_messages, one timer tick (zmq_worker.py 96-159).
PollMessages ==
    /\ UNCHANGED <<gauge, gui>>
    /\ timer = "running"
    /\ Len(signalQ) <= MaxBacklog
    /\ IF ~listening \/ ~pub_socket
       THEN /\ last' = [NoOp EXCEPT !.op = "poll"]
            /\ UNCHANGED <<zmqQueue, listening, timer, last_signal_emit,
                           signalQ, now>>
       ELSE LET plan == PollPlan(cfg, zmqQueue)
                count == ItemCount(cfg, plan.dispatched)
            IN  \E split \in 0..count :
                  LET r == ProcessAll(cfg, plan.dispatched, last_signal_emit,
                                      now, split, 0)
                  IN  /\ split < count => (ReadsClock(cfg, r.log) /\ now < MaxTime)
                      /\ zmqQueue' = SubSeq(zmqQueue, plan.taken + 1, Len(zmqQueue))
                      /\ last_signal_emit' = r.lastEmit
                      /\ signalQ' = signalQ \o r.emitted
                      /\ now' = IF split < count THEN now + 1 ELSE now
                      /\ listening' = (listening /\ ~plan.failed)
                      /\ timer' = IF plan.failed THEN "stopped" ELSE timer
                      /\ last' = [NoOp EXCEPT
                                    !.op = "poll",
                                    !.drained = SubSeq(zmqQueue, 1, plan.taken),
                                    !.dispatched = plan.dispatched,
                                    !.raws = r.raws,
                                    !.log = r.log,
                                    !.emitted = r.emitted,
                                    !.error = plan.failed]
    /\ UNCHANGED <<cfg, pub_socket, req_socket>>
    /\ UNCHANGED windowVars

(***************************************************************************)
(* CANDashboardMainWindow: the sink registry built by __init__ and         *)
(* _setup_gauges (main_window.py 72-103, 230-263).                         *)
(***************************************************************************)
critical_signals == {"rpm", "engine_rpm", "engine_speed", "speed", "vehicle_speed"}

\* self.gauges: lowercase signal name -> gauge widget (by title).
GaugeNames == {"rpm", "engine_rpm", "engine_speed", "speed", "vehicle_speed",
               "mph", "oil", "oil_psi"}
GaugeOf(signal_lower) ==
    CASE signal_lower \in {"rpm", "engine_rpm", "engine_speed"} -> "Engine RPM"
      [] signal_lower \in {"speed", "vehicle_speed", "mph"} -> "Speed"
      [] signal_lower \in {"oil", "oil_psi"} -> "Oil Pressure"
Gauges == {"Engine RPM", "Speed", "Oil Pressure"}
GaugeMin(g) == 0
GaugeMax(g) == IF g = "Engine RPM" THEN 6500 ELSE 100

\* self.indicators and self.displays.
IndicatorNames == {"closed_loop_status"}
IndicatorOf(signal_lower) == "Closed Loop"
Indicators == {"Closed Loop"}
DisplayNames == {"gear", "current_gear"}
DisplayOf(signal_lower) == "Gear"
Displays == {"Gear"}

\* NeonGauge.set_value (gauges.py 405-408): the clamped target value.
GaugeSetValue(g, value) == Max(GaugeMin(g), Min(GaugeMax(g), value))

\* indicator.set_state(value > threshold), threshold 0.5 (main_window.py 434-437).
IndicatorState(value) == 2 * value > 1

\* The text the gear display shows (main_window.py 443-447 and
\* SevenSegmentDisplay.set_text with digits = 1): the gear letter, or the
\* first character of str(int(value)).
RECURSIVE LeadDigit(_)
LeadDigit(v) == IF v < 10 THEN v ELSE LeadDigit(v \div 10)
GearText(value) ==
    CASE value = 0 -> "N"
      [] value = -1 -> "R"
      [] value = 99 -> "P"
      [] value < -1 -> "-"
      [] OTHER -> ToString(LeadDigit(value))

\* classify with the critical set left out.
ImmediateRealtimeOnly(c, signal_lower) == c.REALTIME_GAUGE_UPDATES
\* classify with every gauge sample applied at once.
ImmediateAlways(c, signal_lower) == TRUE
\* classify: the sample is applied at once rather than buffered
\* (main_window.py 427).
Immediate(c, signal_lower) ==
    c.REALTIME_GAUGE_UPDATES \/ signal_lower \in critical_signals

\* update_display_data(signal_name, value): the sink calls it makes and the
\* pending buffer it leaves (main_window.py 418-450).
UpdateDisplayData(c, pending, signal_name, value) ==
    LET signal_lower == Lower(signal_name)
        dropped == c.DISPLAY_SIGNAL_WHITELIST # {}
                   /\ signal_lower \notin c.DISPLAY_SIGNAL_WHITELIST
        gaugeCalls ==
            IF signal_lower \in GaugeNames /\ Immediate(c, signal_lower)
            THEN <<(<<"gauge", GaugeOf(signal_lower), value, signal_name>>)>> ELSE <<>>
        indicatorCalls ==
            IF signal_lower \in IndicatorNames
            THEN <<(<<"indicator", IndicatorOf(signal_lower), value, signal_name>>)>>
            ELSE <<>>
        displayCalls ==
            IF signal_lower \in DisplayNames
            THEN <<(<<"display", DisplayOf(signal_lower), value, signal_name>>)>>
            ELSE <<>>
    IN  IF dropped
        THEN [calls |-> <<>>, pending |-> pending]
        ELSE [calls |-> gaugeCalls \o indicatorCalls \o displayCalls,
              pending |-> IF signal_lower \in GaugeNames
                             /\ ~Immediate(c, signal_lower)
                          THEN DictSet(pending, signal_name, value)
                          ELSE pending]

\* The flush with the first buffered entry lost.
FlushCallsSkipFirst(updates) ==
    IF Len(updates) <= 1 THEN <<>>
    ELSE LET u == updates[2]
         IN  IF Lower(u[1]) \in {"oil", "oil_psi", "mph"}
             THEN <<(<<"gauge",
                       IF Lower(u[1]) = "mph" THEN "Speed" ELSE "Oil Pressure",
                       u[2], u[1]>>)>>
             ELSE <<>>
\* The sink calls of _process_pending_updates on a copy of the buffer
\* (main_window.py 457-461).
RECURSIVE FlushCalls(_)
FlushCalls(updates) ==
    IF updates = <<>> THEN <<>>
    ELSE LET signal_lower == Lower(Head(updates)[1])
         IN  (IF signal_lower \in GaugeNames
              THEN <<(<<"gauge", GaugeOf(signal_lower), Head(updates)[2],
                        Head(updates)[1]>>)>>
              ELSE <<>>) \o FlushCalls(Tail(updates))

\* The sinks after a sequence of calls, in order.
RECURSIVE ApplyGauge(_, _)
ApplyGauge(gv, calls) ==
    IF calls = <<>> THEN gv
    ELSE LET c == Head(calls)
         IN  ApplyGauge(IF c[1] = "gauge"
                        THEN [gv EXCEPT ![c[2]] = GaugeSetValue(c[2], c[3])]
                        ELSE gv, Tail(calls))
RECURSIVE ApplyIndicator(_, _)
ApplyIndicator(io, calls) ==
    IF calls = <<>> THEN io
    ELSE LET c == Head(calls)
         IN  ApplyIndicator(IF c[1] = "indicator"
                            THEN [io EXCEPT ![c[2]] = IndicatorState(c[3])]
                            ELSE io, Tail(calls))
RECURSIVE ApplyDisplay(_, _)
ApplyDisplay(dt, calls) ==
    IF calls = <<>> THEN dt
    ELSE LET c == Head(calls)
         IN  ApplyDisplay(IF c[1] = "display"
                          THEN [dt EXCEPT ![c[2]] = GearText(c[3])]
                          ELSE dt, Tail(calls))

ApplyCalls(calls) ==
    /\ gaugeValue' = ApplyGauge(gaugeValue, calls)
    /\ indicatorOn' = ApplyIndicator(indicatorOn, calls)
    /\ displayText' = ApplyDisplay(displayText, calls)

(***************************************************************************)
(* The gauge widgets (widgets/gauges.py): RoundGauge, ModernGauge and      *)
(* NeonGauge.  A redraw is "repaint" (synchronous) or "update" (deferred). *)
(***************************************************************************)
Abs(x) == IF x < 0 THEN -x ELSE x

\* __init__ of the three classes (gauges.py 27-37, 238-250, 384-403).
NewGauge(kind, min_value, max_value) ==
    [kind |-> kind, min_value |-> min_value, max_value |-> max_value,
     current_value |-> min_value]

\* The clamp with the upper bound forgotten.
ClampLow(g, value) == Max(g.min_value, value)
\* max(self.min_value, min(self.max_value, value)) (gauges.py 45, 253, 407).
Clamp(g, value) == Max(g.min_value, Min(g.max_value, value))

\* change / value_range > threshold and < threshold, for value_range > 0 and
\* threshold = th[1] / th[2] with th[2] > 0.
Exceeds(change, value_range, th) == change * th[2] > th[1] * value_range
\* The skip test with the threshold doubled.
BelowDouble(change, value_range, th) == change * th[2] < 2 * th[1] * value_range
BelowOrAt(change, value_range, th) == change * th[2] <= th[1] * value_range
Below(change, value_range, th) == change * th[2] < th[1] * value_range

\* RoundGauge.set_value (gauges.py 43-64).
RoundSetValue(c, g, value) ==
    LET new_value == Clamp(g, value)
        value_range == g.max_value - g.min_value
        change == Abs(new_value - g.current_value)
    IN  IF value_range > 0
           /\ Exceeds(change, value_range, c.GAUGE_IMMEDIATE_THRESHOLD)
        THEN [gauge |-> [g EXCEPT !.current_value = new_value],
              redraw |-> <<"repaint">>]
        ELSE IF value_range > 0
                /\ Below(change, value_range, c.GAUGE_SKIP_THRESHOLD)
        THEN [gauge |-> g, redraw |-> <<>>]
        ELSE [gauge |-> [g EXCEPT !.current_value = new_value],
              redraw |-> <<"update">>]

\* ModernGauge.set_value (gauges.py 252-263).  The second test compares
\* new_value with current_value after the assignment: the change it sees is
\* zero, whatever the range.
ModernSetValue(c, g, value) ==
    LET new_value == Clamp(g, value)
        rng == g.max_value - g.min_value
        change_pct == Abs(new_value - g.current_value)
        after == [g EXCEPT !.current_value = new_value]
    IN  IF rng > 0 /\ Below(change_pct, rng, c.GAUGE_SKIP_THRESHOLD)
        THEN [gauge |-> g, redraw |-> <<>>]
        ELSE [gauge |-> after,
              redraw |-> IF Exceeds(Abs(new_value - after.current_value), 1,
                                    c.GAUGE_IMMEDIATE_THRESHOLD)
                         THEN <<"repaint">> ELSE <<"update">>]

\* NeonGauge.set_value (gauges.py 405-408).
NeonSetValue(c, g, value) ==
    [gauge |-> [g EXCEPT !.current_value = Clamp(g, value)],
     redraw |-> <<"update">>]

\* set_value of the widget's class.
SetValueOf(c, g, value) ==
    CASE g.kind = "round" -> RoundSetValue(c, g, value)
      [] g.kind = "modern" -> ModernSetValue(c, g, value)
      [] g.kind = "neon" -> NeonSetValue(c, g, value)

\* RoundGauge.set_range (gauges.py 66-72).
RoundSetRange(g, min_value, max_value) ==
    LET r == [g EXCEPT !.min_value = min_value, !.max_value = max_value]
    IN  [gauge |-> [r EXCEPT !.current_value = Clamp(r, g.current_value)],
         redraw |-> <<"update">>]

(***************************************************************************)
(* Actions.                                                                *)
(***************************************************************************)
\* The publisher's next envelope reaches the SUB socket.
Arrive(e) ==
    /\ UNCHANGED <<gauge, gui>>
    /\ pub_socket
    /\ Len(zmqQueue) < MaxQueue
    /\ zmqQueue' = Append(zmqQueue, e)
    /\ last' = [NoOp EXCEPT !.op = "arrive"]
    /\ UNCHANGED <<cfg, now, pub_socket, req_socket, listening, timer,
                   last_signal_emit, signalQ>>
    /\ UNCHANGED windowVars

\* A burst of envelopes reaches the idle SUB socket between two poll ticks.
ArriveAll(es) ==
    /\ UNCHANGED <<gauge, gui>>
    /\ pub_socket
    /\ zmqQueue = <<>>
    /\ zmqQueue' = es
    /\ last' = [NoOp EXCEPT !.op = "arrive"]
    /\ UNCHANGED <<cfg, now, pub_socket, req_socket, listening, timer,
                   last_signal_emit, signalQ>>
    /\ UNCHANGED windowVars

\* connect_sockets called again after the listener has halted: the old SUB
\* socket is closed and a new one connected (zmq_worker.py 50-57, 63-66).
Reconnect ==
    /\ UNCHANGED <<gauge, gui>>
    /\ pub_socket
    /\ timer = "stopped"
    /\ listening' = TRUE
    /\ timer' = "scheduled"
    /\ zmqQueue' = <<>>
    /\ last' = [NoOp EXCEPT !.op = "reconnect"]
    /\ UNCHANGED <<cfg, now, pub_socket, req_socket, last_signal_emit, signalQ>>
    /\ UNCHANGED windowVars

\* stop_listening with the sockets left open.
StopListeningKeepsSockets ==
    /\ UNCHANGED <<gauge, gui>>
    /\ gui = "idle"
    /\ pub_socket
    /\ listening' = FALSE
    /\ timer' \in {"stopped", timer}
    /\ last' = [NoOp EXCEPT !.op = "stop"]
    /\ UNCHANGED <<cfg, now, zmqQueue, pub_socket, req_socket, last_signal_emit,
                   signalQ>>
    /\ UNCHANGED windowVars

\* stop_listening (zmq_worker.py 225-250), called by closeEvent in the GUI
\* thread (main_window.py 484-485) while the worker lives in its own thread.
\* message_timer.stop() is a call across threads, which Qt may refuse: the
\* timer stops or goes on.  A poll tick may be inside _process_message when
\* the call is made: it finishes the message in progress and ends at its
\* next access to the socket; last'.emitted holds what it emits after the
\* call, the emissions before the call are already in signalQ.
StopListening ==
    /\ UNCHANGED <<gauge, gui>>
    /\ gui = "idle"
    /\ pub_socket
    /\ listening' = FALSE
    /\ timer' \in {"stopped", timer}
    /\ pub_socket' = FALSE
    /\ req_socket' = FALSE
    /\ zmqQueue' = <<>>
    /\ \/ /\ last' = [NoOp EXCEPT !.op = "stop"]
          /\ UNCHANGED <<last_signal_emit, signalQ>>
       \/ /\ timer = "running"
          /\ listening
          /\ Len(signalQ) <= MaxBacklog
          /\ LET plan == PollPlan(cfg, zmqQueue)
             IN  /\ ~plan.failed
                 /\ plan.dispatched # <<>>
                 /\ LET r == ProcessMessage(cfg, plan.dispatched[1],
                                            last_signal_emit, now,
                                            Len(plan.dispatched[1].data), 0)
                    IN  /\ last_signal_emit' = r.lastEmit
                        /\ signalQ' = signalQ \o r.emitted
                        /\ \E k \in 0..Len(r.emitted) :
                              last' = [NoOp EXCEPT
                                  !.op = "stop",
                                  !.emitted = SubSeq(r.emitted,
                                                     Len(r.emitted) - k + 1,
                                                     Len(r.emitted))]
    /\ UNCHANGED <<cfg, now>>
    /\ UNCHANGED windowVars

\* connect_sockets (zmq_worker.py 50-57), run by _auto_setup_sequence.
ConnectSockets ==
    /\ UNCHANGED <<gauge, gui>>
    /\ ~pub_socket
    /\ pub_socket' = TRUE
    /\ req_socket' = TRUE
    /\ listening' = TRUE
    /\ timer' = "scheduled"
    /\ zmqQueue' = <<>>
    /\ last' = [NoOp EXCEPT !.op = "connect"]
    /\ UNCHANGED <<cfg, now, last_signal_emit, signalQ>>
    /\ UNCHANGED windowVars

\* start_listening_loop (zmq_worker.py 90-94), the singleShot of connect_sockets.
StartListeningLoop ==
    /\ UNCHANGED <<gauge, gui>>
    /\ timer = "scheduled"
    /\ timer' = "running"
    /\ last' = [NoOp EXCEPT !.op = "start"]
    /\ UNCHANGED <<cfg, now, zmqQueue, pub_socket, req_socket, listening,
                   last_signal_emit, signalQ>>
    /\ UNCHANGED windowVars

\* The GUI thread runs the slot of the oldest queued new_signal_value:
\* update_display_data (main_window.py 418-450).
Deliver ==
    /\ UNCHANGED <<gauge, gui>>
    /\ gui = "idle"
    /\ signalQ # <<>>
    /\ LET signal_name == Head(signalQ)[1]
           value == Head(signalQ)[2]
           r == UpdateDisplayData(cfg, pending_gauge_updates, signal_name, value)
       IN  /\ pending_gauge_updates' = r.pending
           /\ ApplyCalls(r.calls)
           /\ last' = [NoOp EXCEPT !.op = "update", !.name = signal_name,
                                   !.value = value, !.calls = r.calls,
                                   !.before = pending_gauge_updates]
    /\ signalQ' = Tail(signalQ)
    /\ UNCHANGED <<cfg, now>>
    /\ UNCHANGED workerVars

\* _process_pending_updates, one ui_update_timer tick (main_window.py 452-461).
ProcessPendingUpdates ==
    /\ UNCHANGED <<gauge, gui>>
    /\ gui = "idle"
    /\ LET calls == FlushCalls(pending_gauge_updates)
       IN  /\ ApplyCalls(calls)
           /\ last' = [NoOp EXCEPT !.op = "flush", !.calls = calls,
                                   !.before = pending_gauge_updates]
    /\ pending_gauge_updates' = <<>>
    /\ UNCHANGED <<cfg, now, signalQ>>
    /\ UNCHANGED workerVars

\* flush_inflight (main_window.py 463-472): the buffer is cleared and the
\* worker's flush_backlog (zmq_worker.py 252-266) empties the SUB socket.
FlushInflight ==
    /\ UNCHANGED <<gauge, gui>>
    /\ gui = "idle"
    /\ pending_gauge_updates' = <<>>
    /\ LET bad == FirstMalformed(zmqQueue, Len(zmqQueue))
           taken == IF ~pub_socket THEN 0
                    ELSE IF bad = 0 THEN Len(zmqQueue) ELSE bad
       IN  /\ zmqQueue' = SubSeq(zmqQueue, taken + 1, Len(zmqQueue))
           /\ last' = [NoOp EXCEPT !.op = "flush_inflight",
                                   !.before = pending_gauge_updates,
                                   !.drained = SubSeq(zmqQueue, 1, taken)]
    /\ UNCHANGED <<cfg, now, pub_socket, req_socket, listening, timer,
                   last_signal_emit, signalQ, gaugeValue, indicatorOn,
                   displayText>>

\* time.monotonic() advances; the clock is read only by the rate limiter.
Tick ==
    /\ UNCHANGED <<gauge, gui>>
    /\ cfg.SIGNAL_RATE_LIMITS # <<>>
    /\ now < MaxTime
    /\ now' = now + 1
    /\ last' = [NoOp EXCEPT !.op = "tick"]
    /\ UNCHANGED <<cfg, signalQ>>
    /\ UNCHANGED workerVars
    /\ UNCHANGED windowVars

\* send_command (zmq_worker.py 210-223), called directly by the main window
\* (main_window.py 373, 382, 394) and so run by the GUI thread.  Without a
\* command socket it reports an error and returns; otherwise it sends the
\* request and waits in recv_json(), which has no timeout.
SendCommand ==
    /\ gui = "idle"
    /\ gui' = IF req_socket THEN "recv" ELSE "idle"
    /\ last' = [NoOp EXCEPT !.op = "send_command", !.error = ~req_socket]
    /\ UNCHANGED <<cfg, now, signalQ, gauge>>
    /\ UNCHANGED workerVars
    /\ UNCHANGED windowVars

\* The backend's response arrives (or the receive raises): recv_json returns
\* and send_command with it.
Response ==
    /\ gui = "recv"
    /\ gui' = "idle"
    /\ \E failed \in BOOLEAN :
          last' = [NoOp EXCEPT !.op = "response", !.error = failed]
    /\ UNCHANGED <<cfg, now, signalQ, gauge>>
    /\ UNCHANGED workerVars
    /\ UNCHANGED windowVars

\* gauge.set_value(value) on the widget.
SetValue(value) ==
    /\ UNCHANGED gui
    /\ gui = "idle"
    /\ LET r == SetValueOf(cfg, gauge, value)
       IN  /\ gauge' = r.gauge
           /\ last' = [NoOp EXCEPT !.op = "set_value", !.value = value,
                                   !.before = gauge, !.calls = r.redraw]
    /\ UNCHANGED <<cfg, now, signalQ>>
    /\ UNCHANGED workerVars
    /\ UNCHANGED windowVars

\* gauge.set_range(min_value, max_value); only RoundGauge has it.
SetRange(min_value, max_value) ==
    /\ UNCHANGED gui
    /\ gui = "idle"
    /\ gauge.kind = "round"
    /\ LET r == RoundSetRange(gauge, min_value, max_value)
       IN  /\ gauge' = r.gauge
           /\ last' = [NoOp EXCEPT !.op = "set_range", !.before = gauge,
                                   !.calls = r.redraw]
    /\ UNCHANGED <<cfg, now, signalQ>>
    /\ UNCHANGED workerVars
    /\ UNCHANGED windowVars

(***************************************************************************)
(* Inputs.                                                                 *)
(***************************************************************************)
Decoded(i, d) == [type |-> "decoded", id_hex |-> i, data |-> d]
RawEnvelope == [type |-> "raw", id_hex |-> "0x300", data |-> <<>>]
\* A payload that is not JSON, and a socket fault at this point of the stream.
Malformed == [type |-> "malformed", id_hex |-> "", data |-> <<>>]
TransportError == [type |-> "zmqerror", id_hex |-> "", data |-> <<>>]

InitWith(configs) ==
    /\ cfg \in configs
    /\ now = 0
    /\ zmqQueue = <<>>
    /\ pub_socket = FALSE
    /\ req_socket = FALSE
    /\ listening = FALSE
    /\ timer = "none"
    /\ last_signal_emit = <<>>
    /\ signalQ = <<>>
    /\ pending_gauge_updates = <<>>
    /\ gaugeValue = [g \in Gauges |-> GaugeMin(g)]
    /\ indicatorOn = [i \in Indicators |-> FALSE]
    /\ displayText = [d \in Displays |-> "0"]
    /\ gauge = NewGauge("neon", 0, 100)
    /\ gui = "idle"
    /\ last = NoOp
    /\ trace = <<>>

(***************************************************************************)
(* Spec: the backlog collapser.  The backpressure policy varies; the       *)
(* filter is the one the repository ships.                                 *)
(***************************************************************************)
PolicyConfigs ==
    { Settings,
      [Settings EXCEPT !.MERGE_SIGNALS_DURING_COLLAPSE = FALSE],
      [Settings EXCEPT !.BACKLOG_STRATEGY = "normal"] }

\* A burst of these shows every case of collapsing: a signal repeated with a
\* new value, a signal only an earlier envelope carries, one only a later
\* envelope carries, and raw envelopes in between.
PollEnvelopes ==
    { Decoded("0x100", <<(<<"rpm", Num(1)>>)>>),
      Decoded("0x100", <<(<<"rpm", Num(2)>>), (<<"Oil", Num(1)>>)>>),
      Decoded("0x200", <<(<<"Oil", Num(2)>>)>>),
      RawEnvelope }

Init == InitWith(PolicyConfigs)

Next ==
    \/ ConnectSockets /\ UNCHANGED trace
    \/ StartListeningLoop /\ UNCHANGED trace
    \/ \E e \in PollEnvelopes : Arrive(e) /\ UNCHANGED trace
    \/ PollMessages /\ UNCHANGED trace
    \/ Deliver /\ UNCHANGED trace
    \/ ProcessPendingUpdates /\ UNCHANGED trace

Spec == Init /\ [][Next]_vars

(***************************************************************************)
(* SpecFilter: the signal filter.  The whitelist and the blacklist vary;   *)
(* "oil" is on both lists, "gear" on neither.                              *)
(***************************************************************************)
FilterConfigs ==
    { [Settings EXCEPT !.DISPLAY_SIGNAL_WHITELIST = w,
                       !.DISPLAY_SIGNAL_BLACKLIST = b] :
        w \in {{}, {"rpm", "oil"}}, b \in {{}, {"oil"}} }

FilterEnvelopes ==
    { Decoded("0x100", <<(<<"rpm", Num(1)>>), (<<"Oil", Num(1)>>)>>),
      Decoded("0x200", <<(<<"Oil", Num(2)>>), (<<"gear", Num(1)>>)>>),
      Decoded("0x300", <<(<<"Gear", Num(2)>>), (<<"RPM", Num(2)>>)>>) }

InitFilter == InitWith(FilterConfigs)

NextFilter ==
    \/ ConnectSockets /\ UNCHANGED trace
    \/ StartListeningLoop /\ UNCHANGED trace
    \/ \E e \in FilterEnvelopes : Arrive(e) /\ UNCHANGED trace
    \/ PollMessages /\ UNCHANGED trace
    \/ Deliver /\ UNCHANGED trace
    \/ ProcessPendingUpdates /\ UNCHANGED trace

SpecFilter == InitFilter /\ [][NextFilter]_vars

(***************************************************************************)
(* SpecRate: the rate limiter.  "rpm" has a minimum interval of 2 clock    *)
(* units; the trace records the samples that pass the limiter.             *)
(***************************************************************************)
RateConfigs ==
    { [Settings EXCEPT !.SIGNAL_RATE_LIMITS = <<(<<"rpm", 2>>)>>,
                       !.BACKLOG_STRATEGY = p] :
        p \in {"collapse_latest", "normal"} }

RateEnvelopes ==
    { Decoded("0x100", <<(<<"rpm", Num(1)>>)>>),
      Decoded("0x100", <<(<<"RPM", Num(2)>>)>>),
      Decoded("0x100", <<(<<"rpm", Num(2)>>), (<<"RPM", Num(1)>>)>>),
      Decoded("0x100", <<(<<"rpm", NotNum>>)>>) }

\* The samples of a tick's log that passed the rate limiter: <<name, time>>.
RECURSIVE Passes(_, _)
Passes(c, log) ==
    IF log = <<>> THEN <<>>
    ELSE (IF HasKey(c.SIGNAL_RATE_LIMITS, Lower(Head(log).name))
             /\ Head(log).verdict \in {"emitted", "badvalue"}
          THEN <<(<<Lower(Head(log).name), Head(log).t>>)>> ELSE <<>>)
         \o Passes(c, Tail(log))

InitRate == InitWith(RateConfigs)

NextRate ==
    \/ ConnectSockets /\ UNCHANGED trace
    \/ StartListeningLoop /\ UNCHANGED trace
    \/ \E e \in RateEnvelopes : Arrive(e) /\ UNCHANGED trace
    \/ /\ PollMessages
       /\ trace' = trace \o Passes(cfg, last'.log)
       /\ Len(trace') <= MaxTrace
    \/ Deliver /\ UNCHANGED trace
    \/ ProcessPendingUpdates /\ UNCHANGED trace
    \/ Tick /\ UNCHANGED trace

SpecRate == InitRate /\ [][NextRate]_vars

(***************************************************************************)
(* SpecDisplay: the classifier, the pending buffer and the flush.  The     *)
(* trace holds the buffered-path samples ingested since the last flush,    *)
(* closed by a marker once a flush or flush_inflight has run.              *)
(***************************************************************************)
DisplayConfigs ==
    { [Settings EXCEPT !.REALTIME_GAUGE_UPDATES = r] : r \in BOOLEAN }

\* A critical gauge signal ("rpm"), a buffered gauge signal in two spellings
\* and several values ("Oil", "oil"), a display signal and an indicator.
DisplayEnvelopes ==
    { Decoded("0x100", <<(<<"rpm", Num(1)>>), (<<"Oil", Num(1)>>),
                         (<<"gear", Num(1)>>)>>),
      Decoded("0x200", <<(<<"Oil", Num(2)>>), (<<"closed_loop_status", Num(1)>>),
                         (<<"oil", Num(3)>>)>>) }

FlushMark == <<"#flush", 0>>
InflightMark == <<"#inflight", 0>>
Ended(tr) == tr # <<>> /\ tr[Len(tr)] \in {FlushMark, InflightMark}
\* The buffered-path samples of the interval in progress.
Current(tr) == IF Ended(tr) THEN <<>> ELSE tr
Mark(tr, m) == Append(Current(tr), m)

InitDisplay == InitWith(DisplayConfigs)

NextDisplay ==
    \/ ConnectSockets /\ UNCHANGED trace
    \/ StartListeningLoop /\ UNCHANGED trace
    \/ \E e \in DisplayEnvelopes : Arrive(e) /\ UNCHANGED trace
    \/ PollMessages /\ UNCHANGED trace
    \/ /\ Deliver
       /\ trace' = IF pending_gauge_updates' # pending_gauge_updates
                   THEN Append(Current(trace), <<last'.name, last'.value>>)
                   ELSE trace
       /\ Len(Current(trace')) <= MaxTrace
    \/ ProcessPendingUpdates /\ trace' = Mark(trace, FlushMark)
    \/ FlushInflight /\ trace' = Mark(trace, InflightMark)

SpecDisplay == InitDisplay /\ [][NextDisplay]_vars

(***************************************************************************)
(* SpecE2E: the shipped configuration end to end.  After some earlier      *)
(* traffic, five envelopes with "rpm" 1000..5000 reach the quiet pipeline  *)
(* together.  From then on the trace records the poll ticks that begin and *)
(* the set_value calls on the "Engine RPM" gauge.                          *)
(***************************************************************************)
Burst ==
    << Decoded("0x100", <<(<<"rpm", Num(1000)>>)>>),
       Decoded("0x100", <<(<<"rpm", Num(2000)>>)>>),
       Decoded("0x100", <<(<<"rpm", Num(3000)>>)>>),
       Decoded("0x100", <<(<<"rpm", Num(4000)>>)>>),
       Decoded("0x100", <<(<<"rpm", Num(5000)>>)>>) >>

\* The traffic before the burst.
EarlierEnvelopes ==
    { Decoded("0x100", <<(<<"rpm", Num(6000)>>), (<<"Oil", Num(1)>>)>>),
      Decoded("0x200", <<(<<"Oil", Num(2)>>), (<<"gear", Num(1)>>)>>) }

\* The set_value calls on the "Engine RPM" gauge among a handler's calls.
RECURSIVE RpmCalls(_)
RpmCalls(calls) ==
    IF calls = <<>> THEN <<>>
    ELSE (IF Head(calls)[1] = "gauge" /\ Head(calls)[2] = "Engine RPM"
          THEN <<(<<"set_value", Head(calls)[3]>>)>> ELSE <<>>)
         \o RpmCalls(Tail(calls))

InitE2E == InitWith({Settings})

NextE2E ==
    \/ ConnectSockets /\ UNCHANGED trace
    \/ StartListeningLoop /\ UNCHANGED trace
    \/ \E e \in EarlierEnvelopes : Arrive(e) /\ trace = <<>> /\ UNCHANGED trace
    \/ /\ ArriveAll(Burst)
       /\ trace = <<>>
       /\ signalQ = <<>>
       /\ pending_gauge_updates = <<>>
       /\ trace' = <<(<<"burst", Len(Burst)>>)>>
    \/ /\ PollMessages
       /\ trace' = IF trace = <<>> THEN trace
                   ELSE Append(trace, <<"poll", Len(last'.drained)>>)
       /\ Len(trace') <= MaxTrace
    \/ /\ Deliver
       /\ trace' = IF trace = <<>> THEN trace
                   ELSE trace \o RpmCalls(last'.calls)
    \/ /\ ProcessPendingUpdates
       /\ trace' = IF trace = <<>> THEN trace
                   ELSE trace \o RpmCalls(last'.calls)

SpecE2E == InitE2E /\ [][NextE2E]_vars

(***************************************************************************)
(* SpecOrder: arrival order against application order.  The k-th envelope  *)
(* to arrive carries the value k for each of its signals; the trace        *)
(* records the arrivals and every sink call with its signal name.          *)
(***************************************************************************)
Arrivals(tr) == Cardinality({i \in 1..Len(tr) : tr[i][1] = "arrive"})

\* The shapes of the k-th envelope: a buffered gauge signal alone, or after
\* a critical gauge signal and a display signal.
OrderEnvelopes(k) ==
    { Decoded("0x100", <<(<<"Oil", Num(k)>>)>>),
      Decoded("0x200", <<(<<"rpm", Num(k)>>), (<<"gear", Num(k)>>),
                         (<<"Oil", Num(k)>>)>>) }

\* The sink calls of a handler as trace events.
RECURSIVE Applied(_)
Applied(calls) ==
    IF calls = <<>> THEN <<>>
    ELSE <<(<<"apply", Head(calls)[4], Head(calls)[3]>>)>> \o Applied(Tail(calls))

InitOrder == InitWith(PolicyConfigs)

NextOrder ==
    \/ ConnectSockets /\ UNCHANGED trace
    \/ StartListeningLoop /\ UNCHANGED trace
    \/ /\ Arrivals(trace) < MaxTrace - 1
       /\ \E e \in OrderEnvelopes(Arrivals(trace) + 1) : Arrive(e)
       /\ trace' = Append(trace, <<"arrive", "", Arrivals(trace) + 1>>)
    \/ PollMessages /\ UNCHANGED trace
    \/ Deliver /\ trace' = trace \o Applied(last'.calls)
    \/ ProcessPendingUpdates /\ trace' = trace \o Applied(last'.calls)

SpecOrder == InitOrder /\ [][NextOrder]_vars

(***************************************************************************)
(* SpecAlias: several signal names that share one sink.  "speed" (critical)*)
(* and "mph" (buffered) both drive the Speed gauge, "Oil" and "oil" both   *)
(* drive the Oil Pressure gauge; the k-th envelope carries the value k.    *)
(***************************************************************************)
AliasConfigs == {Settings, [Settings EXCEPT !.BACKLOG_STRATEGY = "normal"]}

AliasEnvelopes(k) ==
    { Decoded("0x100", <<(<<"mph", Num(k)>>)>>),
      Decoded("0x100", <<(<<"speed", Num(k)>>)>>),
      Decoded("0x200", <<(<<"Oil", Num(k)>>)>>),
      Decoded("0x200", <<(<<"oil", Num(k)>>)>>) }

InitAlias == InitWith(AliasConfigs)

NextAlias ==
    \/ ConnectSockets /\ UNCHANGED trace
    \/ StartListeningLoop /\ UNCHANGED trace
    \/ /\ Arrivals(trace) < MaxTrace - 1
       /\ \E e \in AliasEnvelopes(Arrivals(trace) + 1) : Arrive(e)
       /\ trace' = Append(trace, <<"arrive", "", Arrivals(trace) + 1>>)
    \/ PollMessages /\ UNCHANGED trace
    \/ Deliver /\ trace' = trace \o Applied(last'.calls)
    \/ ProcessPendingUpdates /\ trace' = trace \o Applied(last'.calls)

SpecAlias == InitAlias /\ [][NextAlias]_vars

(***************************************************************************)
(* SpecCap: the caps.  The cap on receives per tick is 1, below the length *)
(* the queue can reach, or the shipped one; the cap on signals per message *)
(* is off, 1 or 2.                                                         *)
(***************************************************************************)
CapConfigs ==
    { [Settings EXCEPT !.BACKLOG_STRATEGY = "normal", !.MAX_PER_CYCLE = 1],
      [Settings EXCEPT !.BACKLOG_STRATEGY = "normal", !.MAX_PER_CYCLE = 1,
                       !.MAX_SIGNALS_PER_MESSAGE = 1],
      [Settings EXCEPT !.MAX_DRAIN = 1],
      [Settings EXCEPT !.MERGE_SIGNALS_DURING_COLLAPSE = FALSE, !.MAX_DRAIN = 1],
      [Settings EXCEPT !.MAX_SIGNALS_PER_MESSAGE = 1],
      [Settings EXCEPT !.MAX_SIGNALS_PER_MESSAGE = 2] }

CapEnvelopes ==
    { Decoded("0x100", <<(<<"rpm", Num(1)>>), (<<"Oil", Num(1)>>),
                         (<<"gear", Num(1)>>)>>),
      Decoded("0x200", <<(<<"Oil", Num(2)>>), (<<"rpm", Num(2)>>)>>),
      RawEnvelope }

InitCap == InitWith(CapConfigs)

NextCap ==
    \/ ConnectSockets /\ UNCHANGED trace
    \/ StartListeningLoop /\ UNCHANGED trace
    \/ \E e \in CapEnvelopes : Arrive(e) /\ UNCHANGED trace
    \/ PollMessages /\ UNCHANGED trace
    \/ Deliver /\ UNCHANGED trace
    \/ ProcessPendingUpdates /\ UNCHANGED trace

SpecCap == InitCap /\ [][NextCap]_vars

(***************************************************************************)
(* SpecStop: shutdown.  The window is closed at some point after the       *)
(* startup sequence has connected the sockets; the trace records it.       *)
(* connect_sockets runs once, at startup (main_window.py 367), and         *)
(* closeEvent stops the flush timer before it stops the worker.            *)
(***************************************************************************)
StopEnvelopes ==
    { Decoded("0x100", <<(<<"rpm", Num(1)>>), (<<"Oil", Num(1)>>)>>),
      Decoded("0x200", <<(<<"Oil", Num(2)>>)>>),
      RawEnvelope }

InitStop == InitWith(PolicyConfigs)

NextStop ==
    \/ ConnectSockets /\ trace = <<>> /\ UNCHANGED trace
    \/ StartListeningLoop /\ UNCHANGED trace
    \/ \E e \in StopEnvelopes : Arrive(e) /\ UNCHANGED trace
    \/ PollMessages /\ UNCHANGED trace
    \/ Deliver /\ UNCHANGED trace
    \/ ProcessPendingUpdates /\ trace = <<>> /\ UNCHANGED trace
    \/ FlushInflight /\ UNCHANGED trace
    \/ StopListening /\ trace' = Append(trace, "stop")

SpecStop == InitStop /\ [][NextStop]_vars

(***************************************************************************)
(* SpecCommand: commands to the backend while the two schedules run.  The  *)
(* poll timer and the flush timer fire whenever the event loop of their    *)
(* thread gets to run, so their ticks are fair; nothing obliges the        *)
(* backend to answer.  The envelopes are raw ones, which emit no signal    *)
(* value: nothing waits for the GUI thread but its own timer.              *)
(***************************************************************************)
CommandEnvelopes ==
    { RawEnvelope, [RawEnvelope EXCEPT !.id_hex = "0x301"] }

InitCommand == InitWith(PolicyConfigs)

NextCommand ==
    \/ ConnectSockets /\ UNCHANGED trace
    \/ StartListeningLoop /\ UNCHANGED trace
    \/ \E e \in CommandEnvelopes : Arrive(e) /\ UNCHANGED trace
    \/ PollMessages /\ UNCHANGED trace
    \/ ProcessPendingUpdates /\ UNCHANGED trace
    \/ SendCommand /\ UNCHANGED trace
    \/ Response /\ UNCHANGED trace

SpecCommand ==
    /\ InitCommand
    /\ [][NextCommand]_vars
    /\ WF_vars(ConnectSockets /\ UNCHANGED trace)
    /\ WF_vars(StartListeningLoop /\ UNCHANGED trace)
    /\ SF_vars(PollMessages /\ UNCHANGED trace)
    /\ SF_vars(ProcessPendingUpdates /\ UNCHANGED trace)

(***************************************************************************)
(* SpecGauge: one gauge widget of any of the three classes, driven by      *)
(* set_value and set_range calls, under several threshold settings.        *)
(***************************************************************************)
\* The shipped thresholds; an immediate threshold below the skip threshold;
\* and a skip threshold that a change of 5 in 100 meets exactly.
GaugeConfigs ==
    { Settings,
      [Settings EXCEPT !.GAUGE_IMMEDIATE_THRESHOLD = <<1, 50>>,
                       !.GAUGE_SKIP_THRESHOLD = <<1, 10>>],
      [Settings EXCEPT !.GAUGE_SKIP_THRESHOLD = <<5, 100>>] }

GaugeKinds == {"round", "modern", "neon"}
\* Ranges a gauge is constructed with, and ranges set_range is called with.
ConstructedRanges == {<<0, 100>>, <<0, 0>>}
SetRanges == {<<0, 100>>, <<0, 50>>, <<50, 0>>}
\* Arguments of set_value, some outside every range.
GaugeInputs == {-10, 0, 3, 60, 65, 100, 150}

InitGauge ==
    /\ cfg \in GaugeConfigs
    /\ now = 0
    /\ zmqQueue = <<>>
    /\ pub_socket = FALSE
    /\ req_socket = FALSE
    /\ listening = FALSE
    /\ timer = "none"
    /\ last_signal_emit = <<>>
    /\ signalQ = <<>>
    /\ pending_gauge_updates = <<>>
    /\ gaugeValue = [g \in Gauges |-> GaugeMin(g)]
    /\ indicatorOn = [i \in Indicators |-> FALSE]
    /\ displayText = [d \in Displays |-> "0"]
    /\ gauge \in {NewGauge(k, r[1], r[2]) :
                    k \in GaugeKinds, r \in ConstructedRanges}
    /\ gui = "idle"
    /\ last = NoOp
    /\ trace = <<>>

NextGauge ==
    \/ \E value \in GaugeInputs : SetValue(value) /\ UNCHANGED trace
    \/ \E r \in SetRanges : SetRange(r[1], r[2]) /\ UNCHANGED trace

SpecGauge == InitGauge /\ [][NextGauge]_vars

(***************************************************************************)
(* SpecError: errors during ingestion.  The stream carries an envelope     *)
(* with a non-numeric value, undecodable payloads and socket faults; the   *)
(* trace records the ticks that raised and the reconnections.              *)
(***************************************************************************)
ErrorConfigs ==
    PolicyConfigs \cup {[Settings EXCEPT !.DISPLAY_SIGNAL_BLACKLIST = {"gear"}]}

ErrorEnvelopes ==
    { Decoded("0x100", <<(<<"rpm", NotNum>>), (<<"Oil", Num(1)>>),
                         (<<"gear", Num(1)>>)>>),
      Decoded("0x200", <<(<<"rpm", Num(2)>>)>>),
      Malformed,
      TransportError }

InitError == InitWith(ErrorConfigs)

NextError ==
    \/ ConnectSockets /\ UNCHANGED trace
    \/ StartListeningLoop /\ UNCHANGED trace
    \/ \E e \in ErrorEnvelopes : Arrive(e) /\ UNCHANGED trace
    \/ /\ PollMessages
       /\ trace' = IF last'.error
                   THEN Append(trace, last'.drained[Len(last'.drained)].type)
                   ELSE trace
       /\ Len(trace') <= MaxTrace
    \/ Deliver /\ UNCHANGED trace
    \/ ProcessPendingUpdates /\ UNCHANGED trace
    \/ Reconnect /\ trace' = Append(trace, "reconnect")

SpecError == InitError /\ [][NextError]_vars

(***************************************************************************)
(* Claims about the backlog collapser (checked under Spec).                *)
(***************************************************************************)
MergePolicy ==
    cfg.BACKLOG_STRATEGY = "collapse_latest" /\ cfg.MERGE_SIGNALS_DURING_COLLAPSE
LastOnlyPolicy ==
    cfg.BACKLOG_STRATEGY = "collapse_latest" /\ ~cfg.MERGE_SIGNALS_DURING_COLLAPSE

\* Positions of the decoded envelopes among the envelopes a tick drained.
DecodedAt(drained) == {j \in 1..Len(drained) : drained[j].type = "decoded"}
\* The drained decoded envelopes that carry signal k.
Carrying(drained, k) == {j \in DecodedAt(drained) : HasKey(drained[j].data, k)}
SetMax(S) == CHOOSE x \in S : \A y \in S : y <= x

\* C1: under collapse_latest with merging, a poll tick that drained at least
\* one decoded envelope passes exactly one message to _process_message; its
\* data keys are the union of the drained decoded envelopes' keys, and each
\* key has the value of the last drained decoded envelope that carries it.
C1_MergedLastWriteWins ==
    (last.op = "poll" /\ MergePolicy /\ DecodedAt(last.drained) # {}) =>
        /\ Len(last.dispatched) = 1
        /\ Keys(last.dispatched[1].data) =
              UNION {Keys(last.drained[j].data) : j \in DecodedAt(last.drained)}
        /\ \A k \in Keys(last.dispatched[1].data) :
              DictGet(last.dispatched[1].data, k) =
              DictGet(last.drained[SetMax(Carrying(last.drained, k))].data, k)

\* A tick merged two decoded envelopes that both carry "rpm" with different
\* values, the earlier one alone carrying "Oil".
C1_Witness ==
    /\ last.op = "poll" /\ MergePolicy
    /\ Len(last.drained) = 2
    /\ DecodedAt(last.drained) = {1, 2}
    /\ Keys(last.drained[1].data) = {"rpm", "Oil"}
    /\ Keys(last.drained[2].data) = {"rpm"}
    /\ DictGet(last.drained[1].data, "rpm") # DictGet(last.drained[2].data, "rpm")
    /\ Len(last.dispatched) = 1

\* C2: under collapse_latest without merging, a poll tick passes at most one
\* message to _process_message: the last decoded envelope it drained,
\* unmodified; every signal the tick emits is an entry of that envelope, so
\* no signal only an earlier envelope carries is emitted.
C2_LastDecodedOnly ==
    (last.op = "poll" /\ LastOnlyPolicy) =>
        /\ Len(last.dispatched) <= 1
        /\ (Len(last.dispatched) = 1) = (DecodedAt(last.drained) # {})
        /\ Len(last.dispatched) = 1 =>
              /\ last.dispatched[1] = last.drained[SetMax(DecodedAt(last.drained))]
              /\ \A i \in 1..Len(last.emitted) :
                    /\ HasKey(last.dispatched[1].data, last.emitted[i][1])
                    /\ DictGet(last.dispatched[1].data, last.emitted[i][1]).v
                         = last.emitted[i][2]

\* A tick drained two decoded envelopes, the earlier one alone carrying
\* "Oil", and dispatched the later one.
C2_Witness ==
    /\ last.op = "poll" /\ LastOnlyPolicy
    /\ Len(last.drained) = 2
    /\ DecodedAt(last.drained) = {1, 2}
    /\ HasKey(last.drained[1].data, "Oil")
    /\ ~HasKey(last.drained[2].data, "Oil")
    /\ last.dispatched = <<last.drained[2]>>
    /\ last.emitted # <<>>

\* C3 (as claimed): under every policy each raw envelope a poll tick drained
\* is emitted through raw_message_received exactly once.
RECURSIVE SeqFilterRaw(_)
SeqFilterRaw(ms) ==
    IF ms = <<>> THEN <<>>
    ELSE IF Head(ms).type = "raw"
         THEN <<Head(ms)>> \o SeqFilterRaw(Tail(ms))
         ELSE SeqFilterRaw(Tail(ms))
C3_RawDispatchedIndividually ==
    last.op = "poll" => last.raws = SeqFilterRaw(last.drained)

(***************************************************************************)
(* The end-to-end scenario (checked under SpecE2E).                        *)
(***************************************************************************)
EventsOf(kind) == {i \in 1..Len(trace) : trace[i][1] = kind}

\* C4: after the burst of "rpm" 1000..5000, the "Engine RPM" gauge gets no
\* set_value call but one with 5000, at most one of them, and that call
\* comes before the poll tick after the one that drained the burst begins.
C4_EndToEnd ==
    /\ \A i \in EventsOf("set_value") : trace[i][2] = 5000
    /\ Cardinality(EventsOf("set_value")) <= 1
    /\ Cardinality(EventsOf("poll")) >= 2 =>
          \E i \in EventsOf("set_value") :
              Cardinality({j \in EventsOf("poll") : j < i}) = 1


(***************************************************************************)
(* Claims about the signal filter (checked under SpecFilter).              *)
(***************************************************************************)
\* The name is admitted by the configured lists.
Admitted(name) ==
    /\ Lower(name) \notin cfg.DISPLAY_SIGNAL_BLACKLIST
    /\ cfg.DISPLAY_SIGNAL_WHITELIST # {} =>
          Lower(name) \in cfg.DISPLAY_SIGNAL_WHITELIST

\* C5: every sample the worker emits, every sample waiting for the GUI
\* thread or in the pending buffer, and every sample a handler applies to a
\* gauge, indicator or display has a name whose lowercase is not blacklisted
\* and, when the whitelist is non-empty, is whitelisted.
C5_OnlyAdmittedSamples ==
    /\ \A i \in 1..Len(last.emitted) : Admitted(last.emitted[i][1])
    /\ \A i \in 1..Len(signalQ) : Admitted(signalQ[i][1])
    /\ \A i \in 1..Len(pending_gauge_updates) :
          Admitted(pending_gauge_updates[i][1])
    /\ \A i \in 1..Len(last.calls) : Admitted(last.calls[i][4])

\* A tick filtered a message carrying "Oil", which is on both lists, and
\* emitted its other signal.
C5_Witness ==
    /\ last.op = "poll"
    /\ "oil" \in cfg.DISPLAY_SIGNAL_WHITELIST
    /\ "oil" \in cfg.DISPLAY_SIGNAL_BLACKLIST
    /\ \E i \in 1..Len(last.log) :
          last.log[i].name = "Oil" /\ last.log[i].verdict = "blacklist"
    /\ \E i \in 1..Len(last.log) : last.log[i].verdict = "whitelist"
    /\ last.emitted # <<>>

(***************************************************************************)
(* Claims about the rate limiter (checked under SpecRate).                 *)
(***************************************************************************)
MinInterval(sig_l) == DictGet(cfg.SIGNAL_RATE_LIMITS, sig_l)
\* Positions of the trace's passes of signal sig_l.
PassesOf(sig_l) == {i \in 1..Len(trace) : trace[i][1] = sig_l}

\* C6: any two samples of a rate-limited signal that passed the limiter did
\* so at times at least the minimum interval apart; _last_signal_emit holds
\* the time of the signal's latest pass; and a sample that reaches the
\* limiter when at least the interval has elapsed since that time is not
\* dropped by it.
C6_RateLimiter ==
    /\ \A i, j \in 1..Len(trace) :
          (i < j /\ trace[i][1] = trace[j][1]) =>
              trace[j][2] - trace[i][2] >= MinInterval(trace[i][1])
    /\ \A s \in Keys(cfg.SIGNAL_RATE_LIMITS) :
          /\ HasKey(last_signal_emit, s) = (PassesOf(s) # {})
          /\ PassesOf(s) # {} =>
                DictGet(last_signal_emit, s) = trace[SetMax(PassesOf(s))][2]
    /\ \A i \in 1..Len(last.log) :
          LET e == last.log[i]
          IN  (/\ HasKey(cfg.SIGNAL_RATE_LIMITS, Lower(e.name))
               /\ e.hadLast
               /\ e.t - e.last_t >= MinInterval(Lower(e.name)))
              => e.verdict # "rate"

\* "rpm" passed the limiter twice, and the latest tick shows a sample
\* dropped for coming too early and one passed after a full interval.
C6_Witness ==
    /\ Cardinality(PassesOf("rpm")) = 2
    /\ last.op = "poll"
    /\ \E i \in 1..Len(last.log) : last.log[i].verdict = "rate"
    /\ \E i \in 1..Len(last.log) :
          /\ last.log[i].verdict = "emitted"
          /\ last.log[i].hadLast
          /\ last.log[i].t - last.log[i].last_t >= 2

(***************************************************************************)
(* Claims about the classifier, the pending buffer and the flush (checked  *)
(* under SpecDisplay).                                                     *)
(***************************************************************************)
\* The gauge calls among a handler's sink calls.
GaugeCalls(calls) == {i \in 1..Len(calls) : calls[i][1] = "gauge"}
\* The latest update_display_data was for an immediate-path sample.
ImmediateUpdate ==
    /\ last.op = "update"
    /\ (cfg.REALTIME_GAUGE_UPDATES \/ Lower(last.name) \in critical_signals)
\* The latest update_display_data was for a buffered-path sample.
BufferedUpdate ==
    /\ last.op = "update"
    /\ ~cfg.REALTIME_GAUGE_UPDATES
    /\ Lower(last.name) \notin critical_signals

\* C7: when realtime mode is on or the lowercase name is critical,
\* update_display_data has set the name's gauge to the (clamped) value when
\* it returns, and the pending buffer is what it was before the call.
C7_ImmediateBypassesBuffer ==
    ImmediateUpdate =>
        /\ pending_gauge_updates = last.before
        /\ Lower(last.name) \in GaugeNames =>
              /\ \E i \in GaugeCalls(last.calls) :
                    last.calls[i] = <<"gauge", GaugeOf(Lower(last.name)),
                                      last.value, last.name>>
              /\ gaugeValue[GaugeOf(Lower(last.name))]
                    = GaugeSetValue(GaugeOf(Lower(last.name)), last.value)

\* A critical sample was applied with realtime mode off while another
\* signal's sample was waiting in the buffer.
C7_Witness ==
    /\ ImmediateUpdate
    /\ ~cfg.REALTIME_GAUGE_UPDATES
    /\ last.name = "rpm"
    /\ last.before # <<>>
    /\ gaugeValue["Engine RPM"] = 1

NamesOf(tr) == {tr[i][1] : i \in 1..Len(tr)}
LatestOf(tr, name) == tr[SetMax({i \in 1..Len(tr) : tr[i][1] = name})][2]
\* The trace without its closing marker.
Interval(tr) == IF Ended(tr) THEN SubSeq(tr, 1, Len(tr) - 1) ELSE tr

\* C9: the pending buffer holds one entry per name ingested on the buffered
\* path since the last flush and no other, each with the name's most
\* recently ingested value; and a flush makes exactly one gauge call per
\* buffered name, with that value.
C9_LatestPerName ==
    /\ Cardinality(Keys(pending_gauge_updates)) = Len(pending_gauge_updates)
    /\ Keys(pending_gauge_updates) = NamesOf(Current(trace))
    /\ \A name \in Keys(pending_gauge_updates) :
          DictGet(pending_gauge_updates, name) = LatestOf(Current(trace), name)
    /\ last.op = "flush" =>
          /\ Len(last.calls) = Cardinality(NamesOf(Interval(trace)))
          /\ \A name \in NamesOf(Interval(trace)) :
                \E i \in 1..Len(last.calls) :
                    last.calls[i] = <<"gauge", GaugeOf(Lower(name)),
                                      LatestOf(Interval(trace), name), name>>

\* A flush after "Oil" was ingested twice with different values: the gauge
\* shows the second.
C9_Witness ==
    /\ last.op = "flush"
    /\ trace = <<(<<"Oil", 1>>), (<<"Oil", 2>>), FlushMark>>
    /\ gaugeValue["Oil Pressure"] = 2

\* A step keeps, overwrites or applies every buffered sample.
KeptOverwrittenOrApplied ==
    \A i \in 1..Len(pending_gauge_updates) :
        LET name == pending_gauge_updates[i][1]
            value == pending_gauge_updates[i][2]
        IN  \/ /\ HasKey(pending_gauge_updates', name)
               /\ DictGet(pending_gauge_updates', name) = value
            \/ /\ last'.op = "update"
               /\ last'.name = name
               /\ HasKey(pending_gauge_updates', name)
            \/ \E j \in GaugeCalls(last'.calls) :
                  /\ last'.calls[j] = <<"gauge", GaugeOf(Lower(name)), value, name>>
                  /\ gaugeValue' = ApplyGauge(gaugeValue, last'.calls)

\* C10 as stated: no operation, flush_inflight included, removes a buffered
\* sample that was neither applied to its gauge nor overwritten by a newer
\* sample of the name, and a flush leaves the buffer empty.
C10_NoSilentRemoval ==
    [][/\ KeptOverwrittenOrApplied
       /\ last'.op = "flush" => pending_gauge_updates' = <<>>]_vars

\* C10, amended: the same of every operation but flush_inflight, which
\* empties the buffer and applies nothing.
C10_RemovedOnlyByFlushes ==
    [][/\ last'.op # "flush_inflight" => KeptOverwrittenOrApplied
       /\ last'.op = "flush" => pending_gauge_updates' = <<>>
       /\ last'.op = "flush_inflight" =>
             /\ pending_gauge_updates' = <<>>
             /\ UNCHANGED <<gaugeValue, indicatorOn, displayText>>]_vars

\* A flush has applied two buffered samples and left the buffer empty.
C10_Witness ==
    /\ last.op = "flush"
    /\ Len(last.before) = 2
    /\ Len(last.calls) = 2
    /\ pending_gauge_updates = <<>>

(***************************************************************************)
(* Ordering (checked under SpecOrder).                                     *)
(***************************************************************************)
AppliedAt(name) ==
    {i \in 1..Len(trace) : trace[i][1] = "apply" /\ trace[i][2] = name}

\* C11: of two sink calls for the same signal name, the later call never
\* carries a value that arrived before the value of the earlier call; and
\* every value applied is one that has arrived.
C11_AppliedInArrivalOrder ==
    \A name \in {"Oil", "rpm", "gear"} :
        \A i, j \in AppliedAt(name) :
            /\ i < j => trace[i][3] <= trace[j][3]
            /\ trace[i][3] \in 1..Arrivals(SubSeq(trace, 1, i))

\* "Oil" arrived three times; the first and the third value were applied in
\* that order and the second, superseded, never was.
C11_Witness ==
    /\ Arrivals(trace) >= 3
    /\ \E i, j \in AppliedAt("Oil") :
          i < j /\ trace[i][3] = 1 /\ trace[j][3] = 3
    /\ \A i \in AppliedAt("Oil") : trace[i][3] # 2
    /\ gaugeValue["Oil Pressure"] = 3

(***************************************************************************)
(* The gauge widgets (checked under SpecGauge).                            *)
(***************************************************************************)
\* The latest handler was a set_value call; the widget before it, its
\* range, the clamped argument and the size of the change.
SetValueCall == last.op = "set_value"
RangeBefore == last.before.max_value - last.before.min_value
Clamped ==
    IF last.value > last.before.max_value
    THEN (IF last.before.max_value < last.before.min_value
          THEN last.before.min_value ELSE last.before.max_value)
    ELSE IF last.value < last.before.min_value THEN last.before.min_value
    ELSE last.value
ChangeBefore ==
    IF Clamped >= last.before.current_value
    THEN Clamped - last.before.current_value
    ELSE last.before.current_value - Clamped
\* changeRatio > th and changeRatio < th, for a positive range.
RatioAbove(th) == ChangeBefore * th[2] > th[1] * RangeBefore
RatioBelow(th) == ChangeBefore * th[2] < th[1] * RangeBefore

\* C12 as stated: after any set_value and set_range calls the stored value
\* of a gauge constructed with min <= max is within min..max.
C12_CurrentInRange ==
    /\ gauge.min_value <= gauge.current_value
    /\ gauge.current_value <= gauge.max_value

\* C12, amended: the stored value is within min..max whenever the range in
\* force has min <= max; and set_range with min > max leaves it at min.
C12_CurrentInValidRange ==
    /\ gauge.min_value <= gauge.max_value => C12_CurrentInRange
    /\ (last.op = "set_range" /\ gauge.min_value > gauge.max_value) =>
          gauge.current_value = gauge.min_value

\* A RoundGauge narrowed by set_range to 0..50 was given 150 and shows 50.
C12_Witness ==
    /\ SetValueCall
    /\ gauge.kind = "round"
    /\ last.value = 150
    /\ last.before.max_value = 50
    /\ last.before.current_value < 50
    /\ gauge.current_value = 50

\* C13: with a positive range, a set_value call whose change ratio is above
\* the immediate threshold stores the clamped value and repaints.
C13_LargeChangeRepaints ==
    (SetValueCall /\ RangeBefore > 0
       /\ RatioAbove(cfg.GAUGE_IMMEDIATE_THRESHOLD)) =>
        /\ gauge.current_value = Clamped
        /\ last.calls = <<"repaint">>

\* C14: with a positive range, a set_value call whose change ratio is not
\* above the immediate threshold and is below the skip threshold leaves the
\* widget as it was and requests no redraw.
C14_SmallChangeSkipped ==
    (SetValueCall /\ RangeBefore > 0
       /\ ~RatioAbove(cfg.GAUGE_IMMEDIATE_THRESHOLD)
       /\ RatioBelow(cfg.GAUGE_SKIP_THRESHOLD)) =>
        /\ gauge = last.before
        /\ last.calls = <<>>

C16_DegenerateRangeRepaints ==
    (SetValueCall /\ RangeBefore <= 0) =>
        /\ gauge.current_value = Clamped
        /\ last.calls = <<"repaint">>

\* C17: with a positive range and a positive skip threshold, set_value(v)
\* on a widget whose stored value already is clamp(v) requests no redraw
\* and leaves the widget as it was.
C17_RepeatIsIdempotent ==
    (SetValueCall /\ RangeBefore > 0
       /\ cfg.GAUGE_SKIP_THRESHOLD[1] > 0
       /\ last.before.current_value = Clamped) =>
        /\ last.calls = <<>>
        /\ gauge = last.before

(***************************************************************************)
(* Errors during ingestion (checked under SpecError).                      *)
(***************************************************************************)
\* The latest poll tick drained an envelope of this type.
Drained(type) ==
    /\ last.op = "poll"
    /\ \E i \in 1..Len(last.drained) : last.drained[i].type = type
WellFormed(ms) == SelectSeq(ms, LAMBDA m : m.type \notin {"malformed", "zmqerror"})

\* C18: a poll tick that meets an undecodable payload drops only that
\* payload: the listener stays on, the poll timer keeps running, no error
\* halts the tick, and under the bounded policy every well-formed envelope
\* of the tick is dispatched.
C18_MalformedDropsOnlyItself ==
    Drained("malformed") =>
        /\ listening
        /\ timer = "running"
        /\ cfg.BACKLOG_STRATEGY = "normal" =>
              last.dispatched = WellFormed(last.drained)

\* What the filter lets through of the data of the dispatched messages, in
\* order, when no rate limit is configured: the numeric values of the names
\* the whitelist and blacklist admit.
RECURSIVE NumericAdmitted(_)
NumericAdmitted(items) ==
    IF items = <<>> THEN <<>>
    ELSE (IF /\ Head(items)[2].t = "num"
             /\ Lower(Head(items)[1]) \notin cfg.DISPLAY_SIGNAL_BLACKLIST
             /\ (cfg.DISPLAY_SIGNAL_WHITELIST = {}
                 \/ Lower(Head(items)[1]) \in cfg.DISPLAY_SIGNAL_WHITELIST)
          THEN <<(<<Head(items)[1], Head(items)[2].v>>)>> ELSE <<>>)
         \o NumericAdmitted(Tail(items))
RECURSIVE ExpectedEmitted(_)
ExpectedEmitted(msgs) ==
    IF msgs = <<>> THEN <<>>
    ELSE (IF Head(msgs).type = "decoded"
          THEN NumericAdmitted(Head(msgs).data) ELSE <<>>)
         \o ExpectedEmitted(Tail(msgs))
\* A dispatched message has an entry float() rejects.
BadValueDispatched ==
    /\ last.op = "poll"
    /\ \E i \in 1..Len(last.dispatched) :
          \E j \in 1..Len(last.dispatched[i].data) :
              last.dispatched[i].data[j][2].t # "num"

\* C19: a poll tick emits, in order, every entry of the dispatched messages
\* that has a numeric value and passes the filter, whatever non-numeric
\* entries sit beside it; and a non-numeric entry raises no error and does
\* not halt the listener.
C19_BadValueDropsOnlyItself ==
    last.op = "poll" =>
        /\ last.emitted = ExpectedEmitted(last.dispatched)
        /\ (BadValueDispatched /\ ~Drained("malformed") /\ ~Drained("zmqerror")) =>
              /\ ~last.error
              /\ listening
              /\ timer = "running"

\* A message with a non-numeric "rpm" before a numeric "Oil" was processed:
\* "Oil" was emitted, "rpm" was not, the listener is on.
C19_Witness ==
    /\ BadValueDispatched
    /\ \E i \in 1..Len(last.emitted) : last.emitted[i] = <<"Oil", 1>>
    /\ \A i \in 1..Len(last.emitted) : last.emitted[i][1] # "rpm"
    /\ listening
    /\ timer = "running"

\* The listener has halted on an error.
Halted == pub_socket /\ ~listening
IsPrefix(a, b) == Len(a) <= Len(b) /\ SubSeq(b, 1, Len(a)) = a

C30_NoDrift ==
    (SetValueCall /\ gauge.kind = "round"
       /\ gauge.max_value - gauge.min_value > 0) =>
        LET th == cfg.GAUGE_SKIP_THRESHOLD
            diff == Abs(gauge.current_value
                        - Max(gauge.min_value, Min(gauge.max_value, last.value)))
        IN  diff * th[2] < th[1] * (gauge.max_value - gauge.min_value)

\* A RoundGauge showing 0 on 0..100 with a skip threshold of 5% was given 3:
\* the call was skipped and the gauge still shows 0.
C30_Witness ==
    /\ SetValueCall
    /\ gauge.kind = "round"
    /\ gauge.min_value = 0 /\ gauge.max_value = 100
    /\ cfg.GAUGE_SKIP_THRESHOLD = <<5, 100>>
    /\ last.value = 3
    /\ last.calls = <<>>
    /\ gauge.current_value = 0

(***************************************************************************)
(* The rate limiter's table of last-accepted times (checked under          *)
(* SpecRate).                                                              *)
(***************************************************************************)
\* The time of the latest sample of signal sig_l the tick emitted, as a set.
EmittedTimes(log, sig_l) ==
    {log[i].t : i \in {j \in 1..Len(log) : /\ Lower(log[j].name) = sig_l
                                            /\ log[j].verdict = "emitted"}}

\* C28: the last-accepted time of a rate-limited signal changes only in a
\* poll tick that emits a sample of the signal, and then to the time of an
\* emitted sample: a sample dropped for its non-numeric value leaves the
\* table as it was.
C28_OnlyEmissionsAdvance ==
    [][\A s \in Keys(cfg.SIGNAL_RATE_LIMITS) :
          (\/ HasKey(last_signal_emit', s) # HasKey(last_signal_emit, s)
           \/ LastEmitGet(last_signal_emit', s) # LastEmitGet(last_signal_emit, s))
          => /\ last'.op = "poll"
             /\ LastEmitGet(last_signal_emit', s) \in EmittedTimes(last'.log, s)]_vars

\* C29: a sample of a rate-limited signal that reaches the limiter when the
\* table has no entry for the signal is never dropped by the limiter,
\* whatever the clock reads.
C29_FirstSampleAccepted ==
    \A i \in 1..Len(last.log) :
        (/\ HasKey(cfg.SIGNAL_RATE_LIMITS, Lower(last.log[i].name))
         /\ ~last.log[i].hadLast)
        => last.log[i].verdict # "rate"

(***************************************************************************)
(* Signal names that share a sink (checked under SpecAlias).               *)
(***************************************************************************)
\* The sink calls of the trace made on gauge g.
AppliedTo(g) ==
    {i \in 1..Len(trace) : /\ trace[i][1] = "apply"
                           /\ (CASE Lower(trace[i][2]) \in {"speed", "mph"} -> "Speed"
                                 [] Lower(trace[i][2]) \in {"oil"} -> "Oil Pressure"
                                 [] OTHER -> "") = g}

\* C27: of two calls on the same gauge, whatever signal names they were
\* made for, the later call never carries a value that arrived before the
\* value of the earlier call: no flush puts an older value on a sink that
\* a newer value has reached.
C27_SinkNeverGoesBack ==
    \A g \in {"Speed", "Oil Pressure"} :
        \A i, j \in AppliedTo(g) : i < j => trace[i][3] <= trace[j][3]

(***************************************************************************)
(* The header of the merged envelope (checked under Spec).  id_hex stands  *)
(* for the header: the merge copies every key but 'data' from one message. *)
(***************************************************************************)
\* C25: under collapse_latest with merging, the merged envelope handed to
\* _process_message carries the header of the first envelope drained in the
\* tick, whether that envelope is Decoded or Raw.
C25_HeaderOfFirstDrained ==
    (last.op = "poll" /\ MergePolicy /\ last.dispatched # <<>>) =>
        last.dispatched[1].id_hex = last.drained[1].id_hex

(***************************************************************************)
(* The caps (checked under SpecCap).                                       *)
(***************************************************************************)
\* The cap on receives of the policy in force.
ReceiveCap ==
    IF cfg.BACKLOG_STRATEGY = "collapse_latest"
    THEN cfg.MAX_DRAIN ELSE cfg.MAX_PER_CYCLE

RECURSIVE Considered(_)
Considered(msgs) ==
    IF msgs = <<>> THEN <<>>
    ELSE (IF Head(msgs).type # "decoded" THEN <<>>
          ELSE IF cfg.MAX_SIGNALS_PER_MESSAGE > 0
                  /\ Len(Head(msgs).data) > cfg.MAX_SIGNALS_PER_MESSAGE
          THEN SubSeq(Head(msgs).data, 1, cfg.MAX_SIGNALS_PER_MESSAGE)
          ELSE Head(msgs).data)
         \o Considered(Tail(msgs))
DecodedCount(msgs) ==
    Cardinality({i \in 1..Len(msgs) : msgs[i].type = "decoded"})

\* C23: the entries a poll tick runs through the filter are, for every
\* message passed to _process_message, the first N entries of its data map
\* in order when the cap N is positive and all entries when it is 0; with a
\* positive cap at most N values are emitted per message.
C23_FirstNEntries ==
    last.op = "poll" =>
        /\ [i \in 1..Len(last.log) |-> <<last.log[i].name, last.log[i].value>>]
              = Considered(last.dispatched)
        /\ cfg.MAX_SIGNALS_PER_MESSAGE > 0 =>
              Len(last.emitted)
                  <= cfg.MAX_SIGNALS_PER_MESSAGE * DecodedCount(last.dispatched)

\* With a cap of 1 a merged envelope of two drained envelopes with three
\* signals was processed: only its first entry was considered and emitted.
C23_Witness ==
    /\ last.op = "poll"
    /\ cfg.MAX_SIGNALS_PER_MESSAGE = 1
    /\ Len(last.drained) = 2
    /\ Len(last.dispatched) = 1
    /\ Len(last.dispatched[1].data) = 3
    /\ Len(last.log) = 1
    /\ last.emitted = <<(<<last.dispatched[1].data[1][1],
                          last.dispatched[1].data[1][2].v>>)>>

\* C26: a poll tick receives at most the cap of the policy in force,
\* however many envelopes are waiting; and a tick that finds the queue empty
\* receives and dispatches nothing, emits nothing, raises no error and
\* leaves the listener and the poll timer as they were.
C26_TickIsBounded ==
    [][last'.op = "poll" =>
          /\ Len(last'.drained) <= ReceiveCap
          /\ Len(last'.drained) <= Len(zmqQueue)
          /\ zmqQueue = <<>> =>
                /\ last'.dispatched = <<>>
                /\ last'.emitted = <<>>
                /\ ~last'.error
                /\ listening' = listening
                /\ timer' = timer]_vars

\* Under collapse_latest with a cap of 1 a tick received one envelope and
\* left another one waiting.
C26_Witness ==
    /\ last.op = "poll"
    /\ cfg.BACKLOG_STRATEGY = "collapse_latest"
    /\ cfg.MAX_DRAIN = 1
    /\ Len(last.drained) = 1
    /\ zmqQueue # <<>>

(***************************************************************************)
(* Shutdown (checked under SpecStop).                                      *)
(***************************************************************************)
\* stop_listening has been called.
Stopped == trace # <<>>
\* What any handler that starts after stop_listening leaves: nothing
\* received, dispatched or emitted, the listener off, the sockets None.
NothingIngested ==
    /\ last'.drained = <<>>
    /\ last'.dispatched = <<>>
    /\ last'.emitted = <<>>
    /\ Len(signalQ') <= Len(signalQ)
    /\ last_signal_emit' = last_signal_emit
    /\ ~listening'
    /\ ~pub_socket'
    /\ ~req_socket'

C21_SchedulesKeepRunning ==
    /\ []<>(last.op = "flush")
    /\ (timer = "running") ~> (last.op = "poll")

====
